---- MODULE Spec2Model ----
(***************************************************************************)
(* Model of src/main.py: the escape-time engine (MandelbrotSet), the       *)
(* pixel-to-plane mapping (Viewport, Pixel) and the renderer (paint).      *)
(*                                                                         *)
(* Numbers.  The program computes with Python floats and complex numbers.  *)
(* The model computes exactly, over inputs on which the float computation  *)
(* is exact as well: the plane points are Gaussian integers <<re, im>>,    *)
(* the escape radius is a natural number, and a viewport's width is such   *)
(* that scale and offset are integers.  A quotient (a stability value) is  *)
(* a record [num, den] with den > 0.  The one transcendental term, the     *)
(* log(log(abs(z))) / log(2) of the smoothed escape count, is tabulated in *)
(* units of 1/Q; every escape count is carried in those units.             *)
(***************************************************************************)
EXTENDS Integers, Sequences, FiniteSets

VARIABLES
    max_iterations,   \* MandelbrotSet.max_iterations
    escape_radius,    \* MandelbrotSet.escape_radius
    c,                \* the complex argument of an engine call
    smooth,           \* the smooth argument (of an engine call, of paint)
    clamp,            \* the clamp argument of a stability call
    count,            \* what escape_count(c, smooth) returned
    stab,             \* what stability(c, smooth, clamp) returned
    member,           \* what `c in mandelbrot_set` returned
    stability,        \* the stability argument of a palette index computation
    index,            \* the palette index computed from it
    image_width,      \* viewport.image.width
    image_height,     \* viewport.image.height
    pixels,           \* viewport.image's content: <<x, y>> -> colour
    before,           \* the image's content when paint was called
    center,           \* Viewport.center
    width,            \* Viewport.width
    palette,          \* paint's palette: 0 .. L-1 -> colour
    pc,               \* where the program is
    cursor,           \* how many pixels the viewport's iterator has yielded
    writes,           \* the coordinates written by putpixel in this pass, in order
    last,             \* paint's locals after its latest loop body
    error,            \* the exception that ended paint, or "none"
    passes,           \* completed calls of paint
    progress          \* worker -> the number of pixels it has processed

vars == <<max_iterations, escape_radius, c, smooth, clamp, count, stab, member,
          stability, index, image_width, image_height, pixels, center, width,
          palette, pc, cursor, writes, last, error, passes, before,
          progress>>

engineVars == <<max_iterations, escape_radius>>
callVars == <<c, clamp, count, stab, member>>
indexVars == <<stability, index>>
viewportVars == <<image_width, image_height, center, width>>
paintVars == <<pixels, before, palette, pc, cursor, writes, last, error, passes,
               progress>>

(***************************************************************************)
(* Bounds of the model.                                                    *)
(***************************************************************************)
MaxIter == 3      \* max_iterations ranges over -1 .. MaxIter
MaxRadius == 3    \* escape_radius ranges over 0 .. MaxRadius
MaxCoord == 2     \* an engine call's c ranges over (-MaxCoord .. MaxCoord)^2
MaxCenter == 1    \* a viewport's center has its real part in -MaxCenter .. MaxCenter
MaxDim == 2       \* image width and height range over 1 .. MaxDim
MaxWidth == 4     \* a viewport's width ranges over 1 .. MaxWidth
MaxPalette == 3   \* a palette has 1 .. MaxPalette entries
MaxNum == 8       \* a stability argument's numerator ranges over -MaxNum .. MaxNum
MaxDen == 3       \* and its denominator over 1 .. MaxDen
MaxPasses == 2    \* paint is called at most MaxPasses times
NumWorkers == 2   \* the workers that share one pass

(***************************************************************************)
(* Complex arithmetic on Gaussian integers, as Python's complex type does  *)
(* it on floats that hold integers.                                        *)
(***************************************************************************)
Complex(re, im) == <<re, im>>

Re(z) == z[1]

Im(z) == z[2]

CAdd(a, b) == <<a[1] + b[1], a[2] + b[2]>>

CMul(a, b) == <<a[1] * b[1] - a[2] * b[2], a[1] * b[2] + a[2] * b[1]>>

\* z ** 2: an integer power, computed by multiplication
CSquare(z) == CMul(z, z)

\* complex * float: the float is promoted to a complex with imaginary part 0
CScale(z, k) == CMul(z, <<k, 0>>)

\* complex / 2, on a complex whose parts are even
CHalf(z) == <<z[1] \div 2, z[2] \div 2>>

\* abs(z) ** 2
NormSq(z) == z[1] * z[1] + z[2] * z[2]

\* The escape test with >= in place of >
AbsAtLeast(z, r) == IF r < 0 THEN TRUE ELSE NormSq(z) >= r * r

\* abs(z) > r
AbsExceeds(z, r) == IF r < 0 THEN TRUE ELSE NormSq(z) > r * r

(***************************************************************************)
(* Fixed point for the smoothed escape count.                              *)
(***************************************************************************)
Q == 2 ^ 16

\* Log2LogTable[n] = log(log(abs(z))) / log(2) in units of 1/Q, rounded to the
\* nearest unit, where n = abs(z) ** 2 >= 2 (entry 1 is not used: log(log(1))
\* is a domain error)
Log2LogTable ==
  <<
     0, -100189, -56644, -34653, -20542, -10396, -2592, 3683, 8892, 13320,
     17155, 20525, 23523, 26216, 28656, 30883, 32928, 34816, 36569, 38202,
     39729, 41163, 42513, 43787, 44994, 46139, 47228, 48266, 49256, 50203,
     51111, 51981, 52816, 53620, 54394, 55140, 55861, 56556, 57229, 57880,
     58511, 59123, 59716, 60292, 60852, 61396, 61926, 62441, 62944, 63433,
     63911, 64376, 64831, 65275, 65709, 66133, 66548, 66954, 67351, 67740,
     68121, 68494, 68860, 69219, 69571, 69916, 70255, 70587, 70914, 71234,
     71550, 71859, 72164, 72463, 72758, 73047, 73332, 73613, 73889, 74160,
     74428, 74692, 74951, 75207, 75460, 75708, 75953, 76195, 76433, 76668,
     76900, 77129, 77355, 77578, 77797, 78015, 78229, 78441, 78650, 78856,
     79061, 79262, 79461, 79658, 79853, 80045, 80235, 80424, 80609, 80793,
     80975, 81155, 81333, 81509, 81683, 81856, 82026, 82195, 82362, 82528,
     82691, 82853, 83014, 83173, 83330, 83486, 83641, 83794, 83945, 84095,
     84244, 84391, 84537, 84682, 84825, 84968, 85109, 85248, 85387, 85524,
     85660, 85795, 85929, 86061, 86193, 86323, 86453, 86581, 86708, 86835,
     86960, 87084, 87208, 87330, 87451, 87572, 87692, 87810, 87928, 88045,
     88161, 88276, 88390, 88504, 88616, 88728, 88839, 88949, 89059, 89168,
     89275, 89383, 89489, 89595, 89700, 89804, 89907, 90010, 90113, 90214,
     90315, 90415, 90514, 90613, 90712, 90809, 90906, 91002, 91098, 91193,
     91288, 91382, 91475, 91568, 91660, 91752, 91843, 91934, 92024, 92113,
     92202, 92290, 92378, 92466, 92553, 92639, 92725, 92810, 92895, 92980,
     93064, 93147, 93230, 93313, 93395, 93477, 93558, 93639, 93719, 93799,
     93878, 93957, 94036, 94114, 94192, 94269, 94346, 94423, 94499, 94575,
     94650, 94725, 94800, 94874, 94948, 95022, 95095, 95167, 95240, 95312,
     95384, 95455, 95526, 95597, 95667, 95737, 95807, 95876, 95945, 96014,
     96082, 96150, 96218, 96285, 96352, 96419, 96485, 96551, 96617, 96683,
     96748, 96813, 96878, 96942, 97006, 97070, 97133, 97197, 97260, 97322,
     97385, 97447, 97509, 97570, 97632, 97693, 97754, 97814, 97874, 97934,
     97994, 98054, 98113, 98172, 98231, 98290, 98348, 98406, 98464, 98521,
     98579, 98636, 98693, 98750, 98806, 98862, 98918, 98974, 99030, 99085,
     99140, 99195, 99250, 99304, 99359, 99413, 99467, 99520, 99574, 99627,
     99680, 99733, 99786, 99838, 99890, 99943, 99994, 100046, 100098, 100149,
     100200, 100251, 100302, 100352, 100403, 100453, 100503, 100553, 100602, 100652,
     100701, 100750, 100799, 100848, 100897, 100945, 100994, 101042, 101090, 101137,
     101185, 101233, 101280, 101327, 101374, 101421, 101467, 101514, 101560, 101606,
     101653, 101698, 101744, 101790, 101835, 101880, 101926, 101971, 102015, 102060,
     102105, 102149, 102193, 102237, 102281, 102325, 102369, 102412, 102456, 102499,
     102542, 102585, 102628, 102671, 102714, 102756, 102798, 102841, 102883, 102925,
     102966, 103008, 103050, 103091, 103132, 103174, 103215, 103256, 103296, 103337,
     103378, 103418, 103458, 103499, 103539, 103579, 103619, 103658, 103698, 103738
  >>

Log2Log(z) == Log2LogTable[NormSq(z)]

(***************************************************************************)
(* MandelbrotSet                                                           *)
(***************************************************************************)
NoError == "none"

\* The for loop of escape_count, from the top of the iteration `iteration`
\* with the orbit at z.  val is the returned count in units of 1/Q, updates
\* the number of times z was updated.
RECURSIVE EscapeLoop(_, _, _, _)
EscapeLoop(point, smoothed, z, iteration) ==
    IF iteration >= max_iterations
    THEN [err |-> NoError, val |-> max_iterations * Q, updates |-> iteration]
    ELSE LET z1 == CAdd(CSquare(z), point) IN
         IF AbsExceeds(z1, escape_radius)
         THEN IF smoothed
              THEN IF NormSq(z1) <= 1
                   THEN [err |-> "ValueError", val |-> 0, updates |-> iteration + 1]
                   ELSE [err |-> NoError,
                         val |-> (iteration + 1) * Q - Log2Log(z1),
                         updates |-> iteration + 1]
              ELSE [err |-> NoError, val |-> iteration * Q, updates |-> iteration + 1]
         ELSE EscapeLoop(point, smoothed, z1, iteration + 1)

escape_count(point, smoothed) == EscapeLoop(point, smoothed, <<0, 0>>, 0)

\* Comparisons of quotients with positive denominators
QLess(a, b) == a.num * b.den < b.num * a.den

QZero == [num |-> 0, den |-> 1]

QOne == [num |-> 1, den |-> 1]

\* Python's min(a, b): b when b < a, else a
PyMin(a, b) == IF QLess(b, a) THEN b ELSE a

\* Python's max(a, b): b when b > a, else a
PyMax(a, b) == IF QLess(a, b) THEN b ELSE a

\* escape_count / max_iterations, the denominator made positive
Ratio(val) ==
    IF max_iterations > 0
    THEN [num |-> val, den |-> Q * max_iterations]
    ELSE [num |-> -val, den |-> -(Q * max_iterations)]

Clamp(value) == PyMax(QZero, PyMin(value, QOne))

\* stability with the clamp argument ignored
StabilityUnclamped(point, smoothed, clamped) ==
    LET e == escape_count(point, smoothed) IN
    IF e.err # NoError THEN [err |-> e.err, num |-> 0, den |-> 1]
    ELSE IF max_iterations = 0 THEN [err |-> "ZeroDivisionError", num |-> 0, den |-> 1]
    ELSE LET r == Ratio(e.val) IN [err |-> NoError, num |-> r.num, den |-> r.den]

Stability(point, smoothed, clamped) ==
    LET e == escape_count(point, smoothed) IN
    IF e.err # NoError THEN [err |-> e.err, num |-> 0, den |-> 1]
    ELSE IF max_iterations = 0 THEN [err |-> "ZeroDivisionError", num |-> 0, den |-> 1]
    ELSE LET value == Ratio(e.val)
             r == IF clamped THEN Clamp(value) ELSE value
         IN [err |-> NoError, num |-> r.num, den |-> r.den]

\* The membership test on the smoothed stability
ContainsSmooth(point) ==
    LET s == Stability(point, TRUE, TRUE) IN
    [err |-> s.err, val |-> s.err = NoError /\ s.num = s.den]

\* __contains__: stability(c) == 1 with the defaults smooth=False, clamp=True
Contains(point) ==
    LET s == Stability(point, FALSE, TRUE) IN
    [err |-> s.err, val |-> s.err = NoError /\ s.num = s.den]

(***************************************************************************)
(* The palette index of paint                                              *)
(***************************************************************************)
\* The integer part taken by rounding down
TruncFloor(q) == q.num \div q.den

\* int(q): the integer part, rounding toward zero
Trunc(q) == IF q.num >= 0 THEN q.num \div q.den ELSE -((-q.num) \div q.den)

\* index = int(min(stability * len(palette), len(palette) - 1))
RawIndex(s, L) ==
    Trunc(PyMin([num |-> s.num * L, den |-> s.den], [num |-> L - 1, den |-> 1]))

\* The palette index without the remainder
PaletteIndexNoWrap(s, L) == RawIndex(s, L)

\* index % len(palette): Python's remainder has the sign of the divisor
PaletteIndex(s, L) == RawIndex(s, L) % L

(***************************************************************************)
(* Viewport and Pixel                                                      *)
(***************************************************************************)
Scale == width \div image_width

Height == Scale * image_height

Offset == CAdd(center, CHalf(Complex(-width, Height)))

\* The mapping without the flip of the y axis
PixelComplexUnflipped(x, y) == CAdd(CScale(Complex(x, y), Scale), Offset)

\* Pixel.__complex__
PixelComplex(x, y) == CAdd(CScale(Complex(x, -y), Scale), Offset)

\* Viewport.__iter__: the k-th pixel yielded, k = 0, 1, ...
PixelAt(k) == <<k % image_width, k \div image_width>>

PixelCount == image_width * image_height

Coords == (0 .. image_width - 1) \X (0 .. image_height - 1)

\* Pixel.color's setter: image.putpixel((x, y), value)
PutPixel(img, x, y, value) == [img EXCEPT ![<<x, y>>] = value]

(***************************************************************************)
(* paint                                                                   *)
(***************************************************************************)
PaletteLen == Cardinality(DOMAIN palette)

\* The locals of one pass through paint's loop body for the pixel (x, y)
PaintLocals(x, y) ==
    LET s == Stability(PixelComplex(x, y), smooth, TRUE) IN
    IF s.err # NoError
    THEN [err |-> s.err, c |-> PixelComplex(x, y), stability |-> QZero,
          index |-> 0, colour |-> 0]
    ELSE LET q == [num |-> s.num, den |-> s.den] IN
         [err |-> NoError,
          c |-> PixelComplex(x, y),
          stability |-> q,
          index |-> RawIndex(q, PaletteLen),
          colour |-> palette[PaletteIndex(q, PaletteLen)]]

\* A loop body that blends the new colour with the pixel's colour
PaintBodyBlend(img, x, y) ==
    LET l == PaintLocals(x, y) IN
    IF l.err # NoError THEN img
    ELSE PutPixel(img, x, y, palette[(l.index + img[<<x, y>>]) % PaletteLen])

\* The image after paint's loop body for the pixel (x, y)
PaintBody(img, x, y) ==
    LET l == PaintLocals(x, y) IN
    IF l.err # NoError THEN img ELSE PutPixel(img, x, y, l.colour)

NoLocals ==
    [err |-> NoError, c |-> <<0, 0>>, stability |-> QZero, index |-> 0, colour |-> 0]

(***************************************************************************)
(* Initial states: the objects as constructed.  The dataclasses check      *)
(* nothing, so every value of a field is a value the program can hold.     *)
(***************************************************************************)
Points == (-MaxCoord .. MaxCoord) \X (-MaxCoord .. MaxCoord)

\* The centers of the viewports: on the real axis or one unit above it
Centers == (-MaxCenter .. MaxCenter) \X (0 .. 1)

Pending == [err |-> "pending", val |-> 0, updates |-> 0]

PendingStab == [err |-> "pending", num |-> 0, den |-> 1]

PendingMember == [err |-> "pending", val |-> FALSE]

\* A palette of L colours; colour 0 is the black of a new image
PaletteOf(L) == [i \in 0 .. L - 1 |-> i + 1]

Filled(w, h, colour) == [p \in (0 .. w - 1) \X (0 .. h - 1) |-> colour]

\* scale and offset are integers: the floats of the program hold them exactly
ExactViewport ==
    /\ width % image_width = 0
    /\ width % 2 = 0
    /\ Height % 2 = 0

EngineInit ==
    /\ max_iterations \in -1 .. MaxIter
    /\ escape_radius \in 0 .. MaxRadius

NoCall ==
    /\ c = <<0, 0>>
    /\ clamp = TRUE
    /\ count = Pending
    /\ stab = PendingStab
    /\ member = PendingMember

NoIndex ==
    /\ stability = QZero
    /\ index = 0

NoViewport ==
    /\ image_width = 1
    /\ image_height = 1
    /\ center = <<0, 0>>
    /\ width = 2

NoPaint ==
    /\ pixels = Filled(1, 1, 0)
    /\ before = Filled(1, 1, 0)
    /\ cursor = 0
    /\ writes = <<>>
    /\ last = NoLocals
    /\ error = NoError
    /\ passes = 0
    /\ progress = <<>>

(***************************************************************************)
(* Calls of the engine: escape_count, stability and the membership test    *)
(***************************************************************************)
EngineCallInit ==
    /\ EngineInit
    /\ c \in Points
    /\ smooth \in BOOLEAN
    /\ clamp \in BOOLEAN
    /\ count = Pending
    /\ stab = PendingStab
    /\ member = PendingMember
    /\ NoIndex /\ NoViewport /\ NoPaint
    /\ palette = PaletteOf(1)
    /\ pc = "engine"

CallEscapeCount ==
    /\ pc = "engine"
    /\ count = Pending
    /\ count' = escape_count(c, smooth)
    /\ UNCHANGED <<engineVars, c, smooth, clamp, stab, member, indexVars,
                   viewportVars, paintVars>>

CallStability ==
    /\ pc = "engine"
    /\ stab = PendingStab
    /\ stab' = Stability(c, smooth, clamp)
    /\ UNCHANGED <<engineVars, c, smooth, clamp, count, member, indexVars,
                   viewportVars, paintVars>>

CallContains ==
    /\ pc = "engine"
    /\ member = PendingMember
    /\ member' = Contains(c)
    /\ UNCHANGED <<engineVars, c, smooth, clamp, count, stab, indexVars,
                   viewportVars, paintVars>>

EngineNext == CallEscapeCount \/ CallStability \/ CallContains

SpecEngine == EngineCallInit /\ [][EngineNext]_vars

(***************************************************************************)
(* The palette index, on any stability value                               *)
(***************************************************************************)
IndexInit ==
    /\ max_iterations = 1
    /\ escape_radius = 2
    /\ smooth = FALSE
    /\ NoCall /\ NoViewport /\ NoPaint
    /\ stability \in [num : -MaxNum .. MaxNum, den : 1 .. MaxDen]
    /\ index = 0
    /\ palette \in {PaletteOf(L) : L \in 1 .. MaxPalette}
    /\ pc = "index"

ComputeIndex ==
    /\ pc = "index"
    /\ index' = PaletteIndex(stability, PaletteLen)
    /\ pc' = "indexed"
    /\ UNCHANGED <<engineVars, smooth, callVars, stability, viewportVars, pixels,
                   before, palette, cursor, writes, last, error, passes, progress>>

IndexNext == ComputeIndex

SpecIndex == IndexInit /\ [][IndexNext]_vars

(***************************************************************************)
(* paint                                                                   *)
(***************************************************************************)
PaintInit ==
    /\ EngineInit
    /\ NoCall /\ NoIndex
    /\ image_width \in 1 .. MaxDim
    /\ image_height \in 1 .. MaxDim
    /\ center \in Centers
    /\ width \in 1 .. MaxWidth
    /\ ExactViewport
    /\ palette \in {PaletteOf(L) : L \in 1 .. MaxPalette}
    /\ smooth \in BOOLEAN
    /\ pixels = Filled(image_width, image_height, 0)
    /\ before = pixels
    /\ pc = "ready"
    /\ cursor = 0
    /\ writes = <<>>
    /\ last = NoLocals
    /\ error = NoError
    /\ passes = 0
    /\ progress = <<>>

\* paint(mandelbrot_set, viewport, palette, smooth) is called: the for
\* statement takes a new iterator of the viewport
PaintCall ==
    /\ pc \in {"ready", "done"}
    /\ passes < MaxPasses
    /\ before' = pixels
    /\ cursor' = 0
    /\ writes' = <<>>
    /\ last' = NoLocals
    /\ pc' = "painting"
    /\ UNCHANGED <<engineVars, smooth, callVars, indexVars, viewportVars, pixels,
                   palette, error, passes, progress>>

\* The loop body for the pixel p: an exception leaves paint
PaintStep(p) ==
    LET l == PaintLocals(p[1], p[2]) IN
    /\ cursor' = cursor + 1
    /\ IF l.err # NoError
       THEN /\ pc' = "failed"
            /\ error' = l.err
            /\ UNCHANGED <<pixels, writes, last>>
       ELSE /\ pixels' = PaintBody(pixels, p[1], p[2])
            /\ writes' = Append(writes, p)
            /\ last' = l
            /\ UNCHANGED <<pc, error>>
    /\ UNCHANGED <<engineVars, smooth, callVars, indexVars, viewportVars, before,
                   palette, passes, progress>>

\* The iterator yields the next pixel in its order and the body runs
PaintPixel ==
    /\ pc = "painting"
    /\ cursor < PixelCount
    /\ PaintStep(PixelAt(cursor))

\* The iterator is exhausted: paint returns
PaintReturn ==
    /\ pc = "painting"
    /\ cursor = PixelCount
    /\ pc' = "done"
    /\ passes' = passes + 1
    /\ UNCHANGED <<engineVars, smooth, callVars, indexVars, viewportVars, pixels,
                   before, palette, cursor, writes, last, error, progress>>

PaintNext == PaintCall \/ PaintPixel \/ PaintReturn

SpecPaint == PaintInit /\ [][PaintNext]_vars

(***************************************************************************)
(* The loop of paint shared among workers: worker w takes the pixels       *)
(* w, w + NumWorkers, w + 2 * NumWorkers, ... of the viewport's            *)
(* enumeration and runs paint's loop body on each; the workers' steps      *)
(* interleave in any order.                                                *)
(***************************************************************************)
Workers == 0 .. NumWorkers - 1

\* The position in the enumeration of the next pixel of worker w
NextOf(w) == w + progress[w] * NumWorkers

WorkersInit ==
    /\ EngineInit
    /\ NoCall /\ NoIndex
    /\ image_width \in 1 .. MaxDim
    /\ image_height \in 1 .. MaxDim
    /\ center \in Centers
    /\ width \in 1 .. MaxWidth
    /\ ExactViewport
    /\ palette = PaletteOf(MaxPalette)
    /\ smooth \in BOOLEAN
    /\ pixels \in {Filled(image_width, image_height, k) : k \in 0 .. 1}
    /\ before = pixels
    /\ pc = "painting"
    /\ cursor = 0
    /\ writes = <<>>
    /\ last = NoLocals
    /\ error = NoError
    /\ passes = 0
    /\ progress = [w \in Workers |-> 0]

WorkerPixel(w) ==
    /\ pc = "painting"
    /\ NextOf(w) < PixelCount
    /\ LET p == PixelAt(NextOf(w))
           l == PaintLocals(p[1], p[2])
       IN IF l.err # NoError
          THEN /\ pc' = "failed"
               /\ error' = l.err
               /\ UNCHANGED pixels
          ELSE /\ pixels' = PaintBody(pixels, p[1], p[2])
               /\ UNCHANGED <<pc, error>>
    /\ progress' = [progress EXCEPT ![w] = @ + 1]
    /\ UNCHANGED <<engineVars, smooth, callVars, indexVars, viewportVars, before,
                   palette, cursor, writes, last, passes>>

WorkersJoin ==
    /\ pc = "painting"
    /\ \A w \in Workers : NextOf(w) >= PixelCount
    /\ pc' = "done"
    /\ passes' = passes + 1
    /\ UNCHANGED <<engineVars, smooth, callVars, indexVars, viewportVars, pixels,
                   before, palette, cursor, writes, last, error, progress>>

WorkersNext == (\E w \in Workers : WorkerPixel(w)) \/ WorkersJoin

SpecWorkers == WorkersInit /\ [][WorkersNext]_vars

(***************************************************************************)
(* The engine's contract, stated on the orbit itself                       *)
(***************************************************************************)
\* The orbit of 0 under z -> z*z + point after n updates
RECURSIVE OrbitAt(_, _)
OrbitAt(point, n) ==
    IF n = 0 THEN <<0, 0>>
    ELSE LET z == OrbitAt(point, n - 1) IN
         <<z[1] * z[1] - z[2] * z[2] + point[1], 2 * z[1] * z[2] + point[2]>>

\* After the update of iteration i the orbit is beyond the escape radius
EscapesAt(point, i) ==
    LET z == OrbitAt(point, i + 1) IN
    z[1] * z[1] + z[2] * z[2] > escape_radius * escape_radius

\* i is the first iteration at which the orbit escapes
FirstEscapeIs(point, i) ==
    /\ \A j \in 0 .. i - 1 : ~EscapesAt(point, j)
    /\ EscapesAt(point, i)

NeverEscapes(point) == \A i \in 0 .. max_iterations - 1 : ~EscapesAt(point, i)

\* C1: with max_iterations >= 1, escape_count(c, smooth=False) is the smallest
\* iteration index i in 0 .. max_iterations-1 after whose update |z| >
\* escape_radius, and max_iterations when there is none; so it is an integer in
\* [0, max_iterations], it is 0 when |c| > escape_radius, and the loop updates
\* z at most max_iterations times.
C1_EscapeCount ==
    (count # Pending /\ max_iterations >= 1 /\ ~smooth) =>
        /\ count.err = NoError
        /\ count.val % Q = 0
        /\ (count.val \div Q) \in 0 .. max_iterations
        /\ IF NeverEscapes(c)
           THEN count.val = max_iterations * Q /\ count.updates = max_iterations
           ELSE \E i \in 0 .. max_iterations - 1 :
                   /\ FirstEscapeIs(c, i)
                   /\ count.val = i * Q
                   /\ count.updates = i + 1
        /\ (c[1] * c[1] + c[2] * c[2] > escape_radius * escape_radius
               => count.val = 0)
        /\ count.updates <= max_iterations

\* An orbit that escapes at iteration 2 of a longer budget
C1_Witness ==
    /\ count # Pending /\ ~smooth
    /\ max_iterations >= 3
    /\ count.val = 2 * Q

\* C3: with max_iterations >= 1, `c in mandelbrot_set` is true exactly when the
\* orbit of c never has |z| > escape_radius in the max_iterations iterations.
C3_Membership ==
    (member # PendingMember /\ max_iterations >= 1) =>
        /\ member.err = NoError
        /\ member.val <=> NeverEscapes(c)

\* A member other than 0, and the budget is more than one iteration
C3_Witness ==
    /\ member # PendingMember
    /\ member.val
    /\ max_iterations >= 2
    /\ c # <<0, 0>>

\* C7, as claimed: with max_iterations >= 1, stability(c, smooth, clamp=True) is
\* a value in [0, 1]; without smoothing it is escape_count(c) / max_iterations
\* and is 1 exactly when escape_count(c) = max_iterations.
C7_Claim ==
    (stab # PendingStab /\ max_iterations >= 1 /\ clamp) =>
        /\ stab.err = NoError
        /\ 0 <= stab.num /\ stab.num <= stab.den
        /\ ~smooth =>
              /\ stab.num * max_iterations
                     = (escape_count(c, FALSE).val \div Q) * stab.den
              /\ stab.num = stab.den <=> NeverEscapes(c)

(***************************************************************************)
(* The palette index                                                       *)
(***************************************************************************)
\* min(stability * L, L - 1) as a quotient
MinScaled ==
    LET L == PaletteLen IN
    IF stability.num * L <= (L - 1) * stability.den
    THEN [num |-> stability.num * L, den |-> stability.den]
    ELSE [num |-> L - 1, den |-> 1]

IndexRange == -(MaxNum * MaxPalette) - 1 .. MaxPalette + 1

\* The integer nearest to q between 0 and q (rounding toward zero)
TowardZero(q) ==
    CHOOSE t \in IndexRange :
        IF q.num >= 0
        THEN t * q.den <= q.num /\ q.num < (t + 1) * q.den
        ELSE (t - 1) * q.den < q.num /\ q.num <= t * q.den

\* The largest integer not above q
Floor(q) ==
    CHOOSE t \in IndexRange : t * q.den <= q.num /\ q.num < (t + 1) * q.den

\* The member of 0 .. L-1 congruent to t modulo L
Wrapped(t, L) == CHOOSE r \in 0 .. L - 1 : \E k \in IndexRange : t = k * L + r

\* C4, as claimed: the index is floor(min(s * L, L - 1)) mod L with a
\* non-negative modulo, for negative s too.
C4_Claim ==
    pc = "indexed" => index = Wrapped(Floor(MinScaled), PaletteLen)

\* C4, amended: the index is min(s * L, L - 1) rounded toward zero, then taken
\* mod L with a non-negative modulo; for s >= 0 that is the floor.
C4_IndexTruncates ==
    pc = "indexed" =>
        /\ index = Wrapped(TowardZero(MinScaled), PaletteLen)
        /\ stability.num >= 0 => index = Wrapped(Floor(MinScaled), PaletteLen)

\* A negative stability whose product with L is not an integer
C4_Witness ==
    /\ pc = "indexed"
    /\ stability.num < 0
    /\ (stability.num * PaletteLen) % stability.den # 0
    /\ PaletteLen >= 2

\* C5: for a palette of length L >= 1 and any stability value, negative or
\* above 1, the index is computed and lies in [0, L), so it is an index of
\* the palette.
C5_IndexInRange ==
    pc = "indexed" =>
        /\ index \in 0 .. PaletteLen - 1
        /\ index \in DOMAIN palette

\* A stability below -1 whose unwrapped index is negative
C5_Witness ==
    /\ pc = "indexed"
    /\ stability.num < -stability.den
    /\ PaletteLen >= 2
    /\ index > 0

(***************************************************************************)
(* The viewport                                                            *)
(***************************************************************************)
\* z = complex(x, -y) * scale + offset with scale = width / W and
\* offset = center + complex(-width, scale * H) / 2, cleared of fractions
IsMapped(z, x, y) ==
    /\ 2 * image_width * z[1]
          = 2 * x * width + 2 * image_width * center[1] - image_width * width
    /\ 2 * image_width * z[2]
          = 2 * image_width * center[2] + width * image_height - 2 * y * width

\* C9: with width > 0, pixel (x, y) maps to complex(x, -y) * scale + offset;
\* pixel (0, 0) maps to the offset, one step in y lowers the imaginary part by
\* scale and keeps the real part, one step in x raises the real part by scale
\* and keeps the imaginary part.
C9_PixelMapping ==
    /\ Len(writes) > 0 =>
          IsMapped(last.c, writes[Len(writes)][1], writes[Len(writes)][2])
    /\ image_width * Scale = width
    /\ PixelComplex(0, 0) = Offset
    /\ \A x \in 0 .. image_width - 1 : \A y \in 0 .. image_height - 1 :
          /\ IsMapped(PixelComplex(x, y), x, y)
          /\ Im(PixelComplex(x, y + 1)) = Im(PixelComplex(x, y)) - Scale
          /\ Re(PixelComplex(x, y + 1)) = Re(PixelComplex(x, y))
          /\ Re(PixelComplex(x + 1, y)) = Re(PixelComplex(x, y)) + Scale
          /\ Im(PixelComplex(x + 1, y)) = Im(PixelComplex(x, y))

\* paint has mapped a pixel off both axes
C9_Witness ==
    /\ Len(writes) > 0
    /\ writes[Len(writes)][1] >= 1
    /\ writes[Len(writes)][2] >= 1
    /\ last.c = PixelComplex(writes[Len(writes)][1], writes[Len(writes)][2])

(***************************************************************************)
(* paint                                                                   *)
(***************************************************************************)
ValidEngine == max_iterations >= 1 /\ escape_radius > 1

\* C2, as claimed: an engine with max_iterations <= 0 or escape_radius <= 1 is
\* rejected at construction, so paint never processes a pixel with one and no
\* exception surfaces at a pixel.
C2_Claim ==
    /\ cursor > 0 => ValidEngine
    /\ error = NoError

\* seq lists the pixels in the order of Viewport.__iter__
IsRowMajor(seq) ==
    \A k \in 1 .. Len(seq) :
        seq[k] = <<(k - 1) % image_width, (k - 1) \div image_width>>

\* C6, as claimed: one call of paint writes the pixels in row-major order, one
\* colour to each coordinate of the image and to no other, and ends after
\* exactly W * H writes, each the palette entry selected for that pixel, so no
\* pixel keeps its earlier content; a later call starts the sequence again.
C6_Claim ==
    /\ IsRowMajor(writes)
    /\ Len(writes) <= PixelCount
    /\ DOMAIN pixels = Coords
    /\ \A k \in 1 .. Len(writes) :
          pixels[writes[k]]
              = palette[PaletteIndex(
                    LET s == Stability(PixelComplex(writes[k][1], writes[k][2]),
                                       smooth, TRUE)
                    IN [num |-> s.num, den |-> s.den],
                    PaletteLen)]
    /\ pc \in {"done", "failed"} => Len(writes) = PixelCount

\* C10: paint asks for the clamped stability, so the value it indexes with is
\* in [0, 1]; min(stability * L, L - 1) is then in [0, L - 1], the index is
\* not negative and the remainder by L leaves it as it is; stability 1, the
\* value of a point that never escapes, selects entry L - 1 and stability 0
\* selects entry 0.
C10_PaintIndex ==
    Len(writes) > 0 =>
        LET s == last.stability
            L == PaletteLen
        IN /\ 0 <= s.num /\ s.num <= s.den
           /\ last.index \in 0 .. L - 1
           /\ last.index % L = last.index
           /\ last.index * s.den <= s.num * L
           /\ last.colour = palette[last.index]
           /\ pixels[writes[Len(writes)]] = palette[last.index]
           /\ s.num = s.den => last.index = L - 1
           /\ s.num = 0 => last.index = 0
           /\ (max_iterations >= 1 /\ NeverEscapes(last.c)) => last.index = L - 1

\* A smoothed stability strictly between 0 and 1 on a palette of several entries
C10_Witness ==
    /\ Len(writes) > 0
    /\ smooth
    /\ 0 < last.stability.num
    /\ last.stability.num < last.stability.den
    /\ PaletteLen >= 2
    /\ last.index >= 1

(***************************************************************************)
(* The pass shared among workers                                           *)
(***************************************************************************)
\* The image after paint's loop, run in the viewport's order from pixel k on
RECURSIVE SeqPaint(_, _)
SeqPaint(img, k) ==
    IF k >= PixelCount THEN img
    ELSE SeqPaint(PaintBody(img, PixelAt(k)[1], PixelAt(k)[2]), k + 1)

\* The positions in the enumeration of the pixels the workers have processed
Processed == {k \in 0 .. PixelCount - 1 : k < NextOf(k % NumWorkers)}

C8_SameImage ==
    pc \in {"painting", "done"} =>
        LET fromBlank == SeqPaint(Filled(image_width, image_height, 0), 0) IN
        /\ \A k \in 0 .. PixelCount - 1 :
              pixels[PixelAt(k)] =
                  IF k \in Processed THEN fromBlank[PixelAt(k)]
                  ELSE before[PixelAt(k)]
        /\ pc = "done" => pixels = SeqPaint(before, 0)

C8_OnlyTheSink ==
    UNCHANGED <<max_iterations, escape_radius, image_width, image_height, center,
                width, palette, smooth>>

\* C8: the colour written at a pixel depends on the pixel, the engine, the
\* viewport, the palette and the smooth flag alone, not on the image's earlier
\* content nor on the order of the writes: with the pixels shared among
\* workers that write disjoint pixels, every interleaving leaves each
\* processed pixel with the colour the sequential row-major pass on a blank
\* image gives it, and ends with the image of the sequential pass; nothing
\* but the image changes.
C8_Independent == [](C8_SameImage) /\ [][C8_OnlyTheSink]_vars

\* All workers have finished a pass over several pixels of an image that was
\* not blank, and the pass changed it
C8_Witness ==
    /\ pc = "done"
    /\ progress # <<>>
    /\ PixelCount >= 3
    /\ before # Filled(image_width, image_height, 0)
    /\ pixels # before

====
